---- MODULE Spec2Model ----
(***************************************************************************)
(* Model of the contacts-bot student directory: the name tokenizer, the    *)
(* Student entity, the CSV reconciliation engine (ImportService) and the   *)
(* name search (SearchService).                                            *)
(*                                                                         *)
(* Text is modelled as a sequence of characters, each character a string  *)
(* of length one ("rsquo", "lsquo", "ndash", "mdash" name the typographic *)
(* quote and dash characters).  The empty string is << >>.  Python's None *)
(* and False, where a text value may be either, are the one-element       *)
(* sequences None and PyFalse, which are no text.                         *)
(***************************************************************************)
EXTENDS Integers, Sequences, FiniteSets, TLC

(***************************************************************************)
(* Bounds of the model.                                                    *)
(***************************************************************************)
\* Largest number of data rows in one CSV batch.
MaxRows == 2
\* Largest number of files imported in one behaviour.
MaxFiles == 1
\* Largest number of times the last file is imported again.
MaxRepeats == 1

(***************************************************************************)
(* Characters and the str methods used by the code.                        *)
(***************************************************************************)
None == <<"None">>
PyFalse == <<"False">>

UpperLetters == {"A", "B", "C", "D", "E", "F", "N", "O", "P"}
LowerLetters == {"a", "b", "c", "d", "e", "f", "n", "o", "p"}

\* str.lower, one character
LowerChar(c) ==
    CASE c = "A" -> "a" [] c = "B" -> "b" [] c = "C" -> "c" [] c = "D" -> "d"
      [] c = "E" -> "e" [] c = "F" -> "f" [] c = "N" -> "n" [] c = "O" -> "o"
      [] c = "P" -> "p"
      [] OTHER -> c

\* str.lower
Lower(s) == [k \in 1..Len(s) |-> LowerChar(s[k])]

RECURSIVE LStrip(_, _)
\* str.lstrip(chars)
LStrip(s, chars) ==
    IF s # << >> /\ Head(s) \in chars THEN LStrip(Tail(s), chars) ELSE s

RECURSIVE RStrip(_, _)
\* str.rstrip(chars)
RStrip(s, chars) ==
    IF s # << >> /\ s[Len(s)] \in chars
    THEN RStrip(SubSeq(s, 1, Len(s) - 1), chars)
    ELSE s

\* str.strip(chars)
StripChars(s, chars) == RStrip(LStrip(s, chars), chars)

Whitespace == {" "}

\* str.strip()
Strip(s) == StripChars(s, Whitespace)

\* (s or ""): None and the empty string both give the empty string
OrEmpty(s) == IF s = None THEN << >> ELSE s

\* Truth value of a text-or-None-or-False operand of Python's `or`
Truthy(v) == v \notin {None, PyFalse, << >>}

\* a or b, on such operands
PyOr(a, b) == IF Truthy(a) THEN a ELSE b

(***************************************************************************)
(* common/models.py: normalize, tokenize_names, generate_ordered_pairs.    *)
(***************************************************************************)
\* The replace() chain of normalize, one character
ReplaceFancy(c) ==
    CASE c = "rsquo" -> "'" [] c = "lsquo" -> "'"
      [] c = "ndash" -> "-" [] c = "mdash" -> "-"
      [] OTHER -> c

\* NFKC leaves every character of the model's alphabet as it is.
normalize(s) ==
    LET t == Strip(Lower(s))
    IN  [k \in 1..Len(t) |-> ReplaceFancy(t[k])]

\* The character class of NAME_TOKEN_RE
NAME_TOKEN_RE(c) == c \in UpperLetters \cup LowerLetters \cup {"'", "rsquo", "-"}

RECURSIVE FindAll(_, _, _)
\* NAME_TOKEN_RE.findall: the maximal runs of class characters, left to right.
\* k is the position being read, run the run in progress.
FindAll(s, k, run) ==
    LET flush == IF run = << >> THEN << >> ELSE <<run>>
    IN  IF k > Len(s) THEN flush
        ELSE IF NAME_TOKEN_RE(s[k]) THEN FindAll(s, k + 1, Append(run, s[k]))
        ELSE flush \o FindAll(s, k + 1, << >>)

InSeq(x, seq) == \E k \in 1..Len(seq) : seq[k] = x

\* The member of a one-element set.  In Only({e(x) : x \in {v}}) the value v
\* of a loop variable is computed once and then read as x.
Only(S) == CHOOSE x \in S : TRUE

\* One iteration of the inner loop of tokenize_names: the match m of the pattern
AddToken(tokens, m) ==
    LET t == StripChars(m, {"-", "'"})
    IN  IF t = << >> \/ InSeq(t, tokens) THEN tokens ELSE Append(tokens, t)

RECURSIVE AddTokens(_, _)
\* The inner loop of tokenize_names over the matches ms of one part
AddTokens(tokens, ms) ==
    IF ms = << >> THEN tokens
    ELSE Only({AddTokens(AddToken(ts, Head(ms)), Tail(ms)) : ts \in {tokens}})

RECURSIVE TokenizeFrom(_, _)
\* The outer loop of tokenize_names over the parts
TokenizeFrom(tokens, parts) ==
    IF parts = << >> THEN tokens
    ELSE Only({IF ~Truthy(Head(parts)) THEN TokenizeFrom(ts, Tail(parts))
               ELSE TokenizeFrom(AddTokens(ts, FindAll(normalize(Head(parts)), 1, << >>)),
                                 Tail(parts)) : ts \in {tokens}})

\* tokenize_names(*parts): unique tokens in first-seen order
tokenize_names(parts) == TokenizeFrom(<< >>, parts)

\* f"{a} {b}"
PairString(a, b) == a \o <<" ">> \o b

RECURSIVE PairsFrom(_, _, _)
\* itertools.permutations(tokens, 2) in its order: positions (p, q), p # q,
\* p outer and q inner
PairsFrom(tokens, p, q) ==
    IF p > Len(tokens) THEN << >>
    ELSE IF q > Len(tokens) THEN PairsFrom(tokens, p + 1, 1)
    ELSE IF p = q THEN PairsFrom(tokens, p, q + 1)
    ELSE <<PairString(tokens[p], tokens[q])>> \o PairsFrom(tokens, p, q + 1)

\* The pairs of itertools.product(tokens, repeat=2)
generate_product_pairs(tokens) ==
    [k \in 1..(Len(tokens) * Len(tokens)) |->
        PairString(tokens[((k - 1) \div Len(tokens)) + 1],
                   tokens[((k - 1) % Len(tokens)) + 1])]

generate_ordered_pairs(tokens) == PairsFrom(tokens, 1, 1)

\* No call of generate_ordered_pairs
NoPairing == [called |-> FALSE, tokens |-> << >>, pairs |-> << >>]

SeqToSet(seq) == {seq[k] : k \in 1..Len(seq)}

(***************************************************************************)
(* Dictionaries: functions whose domain is the set of keys present.        *)
(***************************************************************************)
EmptyDict == [k \in {} |-> << >>]

\* d.get(k, default)
Get(d, k, default) == IF k \in DOMAIN d THEN d[k] ELSE default

\* d[k] = v
Put(d, k, v) == [x \in (DOMAIN d) \cup {k} |-> IF x = k THEN v ELSE d[x]]

(***************************************************************************)
(* common/models.py: Student.                                              *)
(***************************************************************************)
StudentFields ==
    {"first_name", "last_name", "name_pairs", "cub_email", "personal_email",
     "telegram_name", "telegram_id", "admission_year", "scholarship",
     "citizenship", "public_comment", "secret_comment", "matric_number"}

\* The declared defaults of the optional fields
FieldDefaults(data) ==
    LET d1 == IF "name_pairs" \in DOMAIN data THEN data ELSE Put(data, "name_pairs", << >>)
        d2 == IF "public_comment" \in DOMAIN d1 THEN d1 ELSE Put(d1, "public_comment", << >>)
        d3 == IF "secret_comment" \in DOMAIN d2 THEN d2 ELSE Put(d2, "secret_comment", << >>)
    IN  IF "matric_number" \in DOMAIN d3 THEN d3 ELSE Put(d3, "matric_number", None)

\* A validator that derives name_pairs from the names every time
build_name_pairs_always(self) ==
    [self EXCEPT !.name_pairs =
        generate_ordered_pairs(tokenize_names(<<self.first_name, self.last_name>>))]

\* The model validator: name_pairs is filled in only when none was supplied
build_name_pairs(self) ==
    IF self.name_pairs = << >>
    THEN [self EXCEPT !.name_pairs =
            generate_ordered_pairs(tokenize_names(<<self.first_name, self.last_name>>))]
    ELSE self

\* A construction that runs no validator
StudentUnvalidated(data) ==
    LET full == FieldDefaults(data)
    IN  [k \in StudentFields |-> full[k]]

\* Student(**data) followed by model_dump(): a dict with the thirteen fields
Student(data) ==
    LET full == FieldDefaults(data)
    IN  build_name_pairs([k \in StudentFields |-> full[k]])

\* s.model_dump(): doc_id is an attribute set after construction, not a field
model_dump(s) == [k \in StudentFields |-> s[k]]

\* No construction of a Student
NoConstruction == [called |-> FALSE, data |-> EmptyDict, student |-> EmptyDict]

(***************************************************************************)
(* importing/import_service.py: row normalisation.                         *)
(***************************************************************************)
default_admission_year == 2025

\* _norm
norm(s) == Strip(OrEmpty(s))

\* _norm_email
norm_email(s) == Lower(Strip(OrEmpty(s)))

Placeholders == {<<"-">>, <<"n", "o", "n", "e">>, <<"n", "/", "a">>, <<"n", "a">>}

\* A canonical handle that keeps the placeholders
norm_tg_keeping_placeholders(s) ==
    LET t == Strip(OrEmpty(s))
    IN  IF t = << >> THEN << >>
        ELSE IF Head(t) # "@" THEN <<"@">> \o t
        ELSE t

\* _norm_tg
norm_tg(s) ==
    LET t == Strip(OrEmpty(s))
    IN  IF t = << >> \/ Lower(t) \in Placeholders THEN << >>
        ELSE IF Head(t) # "@" THEN <<"@">> \o t
        ELSE t

RowFields ==
    {"first_name", "last_name", "personal_email", "cub_email", "telegram_name",
     "matric_number", "citizenship", "scholarship", "public_comment"}

\* _normalize_row: the CSV headers mapped to the model's fields
normalize_row(row) ==
    [first_name     |-> norm(Get(row, "First name", None)),
     last_name      |-> norm(Get(row, "Last name", None)),
     personal_email |-> norm_email(Get(row, "Email", None)),
     cub_email      |-> norm_email(Get(row, "CUB Email", None)),
     telegram_name  |-> norm_tg(Get(row, "Telegram", None)),
     matric_number  |-> norm(Get(row, "Matriculation Num.", None)),
     citizenship    |-> norm(Get(row, "Citizenship", None)),
     scholarship    |-> norm(Get(row, "Type of grant", None)),
     public_comment |-> norm(Get(row, "Comment", None))]

\* A test that finds no row empty
is_empty_row_never(row) == FALSE

\* _is_empty_row
is_empty_row(row) == ~(\E k \in DOMAIN row : Truthy(row[k]))

(***************************************************************************)
(* importing/import_service.py: the snapshot and its indexes.              *)
(* The store is the sequence of the stored documents; a document's id is   *)
(* its position, never empty, and stream() yields the documents in id      *)
(* order.  by_email and by_tg hold references to the students of the       *)
(* snapshot: positions in the list students.                               *)
(***************************************************************************)
\* The members of a set of positions, ascending
Ascending(S) ==
    [k \in 1..Cardinality(S) |->
        CHOOSE x \in S : Cardinality({y \in S : y < x}) = k - 1]

\* stu = Student(**data); stu.doc_id = snap.id, for every snapshot of the stream
SnapshotStudents(st) ==
    [k \in 1..Len(st) |-> Put(Student(st[k]), "doc_id", k)]

\* emails = {norm_email(cub_email), norm_email(personal_email)}
StudentEmails(stu) == {norm_email(stu.cub_email), norm_email(stu.personal_email)}

\* by_email of _load_students_index
EmailIndex(studs) ==
    LET keys == {em \in UNION {StudentEmails(studs[k]) : k \in 1..Len(studs)} : em # << >>}
    IN  [em \in keys |->
            LET Has(k) == em \in StudentEmails(studs[k])
            IN  Ascending({k \in 1..Len(studs) : Has(k)})]

\* by_tg of _load_students_index: the key is the normalised handle, lowercased
HandleIndex(studs) ==
    LET Key(k) == Lower(norm_tg(studs[k].telegram_name))
        keys == {Key(k) : k \in {j \in 1..Len(studs) : norm_tg(studs[j].telegram_name) # << >>}}
    IN  [tg \in keys |->
            LET Has(k) == norm_tg(studs[k].telegram_name) # << >> /\ Key(k) = tg
            IN  Ascending({k \in 1..Len(studs) : Has(k)})]

(***************************************************************************)
(* importing/import_service.py: _match_students.                           *)
(* matches is a dict keyed by doc_id: the sequence of the positions of the *)
(* matched students in insertion order, one per doc_id.                    *)
(***************************************************************************)
\* if s.doc_id: matches[s.doc_id] = s
AddMatch(matches, studs, k) ==
    IF studs[k].doc_id = 0 THEN matches
    ELSE IF \E m \in 1..Len(matches) : studs[matches[m]].doc_id = studs[k].doc_id
    THEN matches
    ELSE Append(matches, k)

RECURSIVE AddMatches(_, _, _)
\* for s in lst: if s.doc_id: matches[s.doc_id] = s
AddMatches(matches, studs, lst) ==
    IF lst = << >> THEN matches
    ELSE Only({AddMatches(AddMatch(m, studs, Head(lst)), studs, Tail(lst)) :
                  m \in {matches}})

\* 1) By any email: the cub_email of the row, then its personal_email
MatchByEmail(row, byEmail, studs) ==
    LET Step(matches, em) ==
            LET emn == norm_email(em)
            IN  IF emn # << >> /\ emn \in DOMAIN byEmail
                THEN AddMatches(matches, studs, byEmail[emn])
                ELSE matches
    IN  Step(Step(<< >>, Get(row, "cub_email", None)), Get(row, "personal_email", None))

\* 2) By telegram handle
MatchByHandle(row, byTg, studs) ==
    LET tg == norm_tg(Get(row, "telegram_name", None))
    IN  IF tg # << >>
        THEN AddMatches(<< >>, studs, Get(byTg, Lower(tg), << >>))
        ELSE << >>

\* A name tier that also takes a row without name tokens
MatchByNameUnguarded(row, studs) ==
    LET row_tokens == SeqToSet(tokenize_names(<<Get(row, "first_name", << >>),
                                                Get(row, "last_name", << >>)>>))
        Sub(k) == row_tokens \subseteq
                    SeqToSet(tokenize_names(<<studs[k].first_name, studs[k].last_name>>))
    IN  AddMatches(<< >>, studs, Ascending({k \in 1..Len(studs) : Sub(k)}))

\* 3) By names tokens subset
MatchByName(row, studs) ==
    LET row_tokens == SeqToSet(tokenize_names(<<Get(row, "first_name", << >>),
                                                Get(row, "last_name", << >>)>>))
        Sub(k) == row_tokens \subseteq
                    SeqToSet(tokenize_names(<<studs[k].first_name, studs[k].last_name>>))
    IN  IF row_tokens # {}
        THEN AddMatches(<< >>, studs, Ascending({k \in 1..Len(studs) : Sub(k)}))
        ELSE << >>

\* A match that unions the three tiers
match_all_tiers(row, byEmail, byTg, studs) ==
    LET m1 == MatchByEmail(row, byEmail, studs)
        m2 == MatchByHandle(row, byTg, studs)
        m3 == MatchByName(row, studs)
        In(k) == InSeq(k, m1) \/ InSeq(k, m2) \/ InSeq(k, m3)
    IN  Ascending({k \in 1..Len(studs) : In(k)})

\* A match that keeps only the first student of the winning tier
match_first_only(row, byEmail, byTg, studs) ==
    LET m1 == MatchByEmail(row, byEmail, studs)
        m2 == MatchByHandle(row, byTg, studs)
        m  == IF m1 # << >> THEN m1
              ELSE IF m2 # << >> THEN m2
              ELSE MatchByName(row, studs)
    IN  IF m = << >> THEN m ELSE <<m[1]>>

match_students(row, byEmail, byTg, studs) ==
    LET m1 == MatchByEmail(row, byEmail, studs)
        m2 == MatchByHandle(row, byTg, studs)
    IN  IF m1 # << >> THEN m1
        ELSE IF m2 # << >> THEN m2
        ELSE MatchByName(row, studs)

(***************************************************************************)
(* importing/import_service.py: merge, create, update.                     *)
(***************************************************************************)
\* pick(field)
pick(row, fld) ==
    LET v == Get(row, fld, None)
    IN  IF v \notin {None, << >>} THEN v ELSE None

\* set_if_present(key, value), for a text or None value
set_if_present(out, key, value) == IF value # None THEN Put(out, key, value) ELSE out

\* a or b, on integers
IntOr(a, b) == IF a # 0 THEN a ELSE b

\* The n-th assignment of _merge_into_student_dict, in source order
MergeLine(out, n, row, creating) ==
    LET \* (creating and "")
        cr == IF creating THEN << >> ELSE PyFalse
    IN  CASE n = 1 -> set_if_present(out, "first_name",
                        PyOr(PyOr(pick(row, "first_name"), cr), Get(out, "first_name", << >>)))
          [] n = 2 -> set_if_present(out, "last_name",
                        PyOr(PyOr(pick(row, "last_name"), cr), Get(out, "last_name", << >>)))
          [] n = 3 -> set_if_present(out, "cub_email",
                        PyOr(pick(row, "cub_email"), Get(out, "cub_email", << >>)))
          [] n = 4 -> set_if_present(out, "personal_email",
                        PyOr(pick(row, "personal_email"), Get(out, "personal_email", << >>)))
          [] n = 5 -> set_if_present(out, "telegram_name",
                        PyOr(pick(row, "telegram_name"), Get(out, "telegram_name", << >>)))
          [] n = 6 -> set_if_present(out, "matric_number",
                        PyOr(pick(row, "matric_number"), Get(out, "matric_number", None)))
          [] n = 7 -> set_if_present(out, "citizenship",
                        PyOr(pick(row, "citizenship"), Get(out, "citizenship", << >>)))
          [] n = 8 -> set_if_present(out, "scholarship",
                        PyOr(pick(row, "scholarship"), Get(out, "scholarship", << >>)))
          [] n = 9 -> set_if_present(out, "public_comment",
                        PyOr(pick(row, "public_comment"), Get(out, "public_comment", << >>)))
          \* Required fields fallbacks.  The integer and list values are never None.
          [] n = 10 -> Put(out, "telegram_id", IntOr(Get(out, "telegram_id", 0), 0))
          [] n = 11 -> Put(out, "admission_year",
                        IntOr(Get(out, "admission_year", default_admission_year),
                              default_admission_year))
          [] n = 12 -> set_if_present(out, "secret_comment", Get(out, "secret_comment", << >>))
          [] n = 13 -> Put(out, "name_pairs", Get(out, "name_pairs", << >>))
          [] n = 14 -> set_if_present(out, "citizenship",
                        Get(out, "citizenship", Get(out, "country", << >>)))

RECURSIVE MergeFrom(_, _, _, _)
\* The assignments n..14 applied to out, one after the other
MergeFrom(out, n, row, creating) ==
    IF n > 14 THEN out
    ELSE Only({MergeFrom(MergeLine(o, n, row, creating), n + 1, row, creating) :
                  o \in {out}})

\* A merge that starts from an empty dict also when updating
merge_dropping_base(base, row, creating) == MergeFrom(EmptyDict, 1, row, creating)

\* out = dict(base) if not creating else {}, then the assignments
merge_into_student_dict(base, row, creating) ==
    MergeFrom(IF ~creating THEN base ELSE EmptyDict, 1, row, creating)

\* _create_student: the document added to the collection
create_student(row) == Student(merge_into_student_dict(EmptyDict, row, TRUE))

\* _update_student_if_changed: the document compared and, if changed, written
UpdatedData(s, row) ==
    LET current  == model_dump(s)
        new_data == merge_into_student_dict(current, row, FALSE)
    IN  Student([k \in (DOMAIN new_data) \ {"doc_id"} |-> new_data[k]])

\* A comparison over the attributes of the student, doc_id among them
update_changed_with_doc_id(s, row) ==
    LET new_data == UpdatedData(s, row)
    IN  \E k \in DOMAIN s : k \notin DOMAIN new_data \/ s[k] # new_data[k]

\* A comparison that finds every merged record changed
update_changed_always(s, row) == TRUE

\* changed = any(current.get(k) != new_data.get(k) for k in new_data.keys())
update_changed(s, row) ==
    LET current  == model_dump(s)
        new_data == UpdatedData(s, row)
    IN  \E k \in DOMAIN new_data : current[k] # new_data[k]

(***************************************************************************)
(* importing/import_service.py: the body of the row loop of                *)
(* import_csv_file, and the duplicate groups built after it.               *)
(***************************************************************************)
\* enumerate(rows, start=2): the index of the first data row
RowIndexStart == 2

EmptyReport ==
    [created |-> 0, updated |-> 0, ambiguous_rows |-> << >>, duplicate_groups |-> << >>]

\* No second call of import_csv_file
NoOther ==
    [started |-> FALSE, pc |-> "idle", rows |-> << >>, students |-> << >>,
     by_email |-> EmptyDict, by_tg |-> EmptyDict, report |-> EmptyReport,
     matched_row_groups |-> << >>, i |-> 1]

\* f"multiple matches by keys: {[s.doc_id for s in matches if s.doc_id]}"
MultipleReason(matches, studs) ==
    [text |-> "multiple matches by keys",
     ids  |-> LET all == [k \in 1..Len(matches) |-> studs[matches[k]].doc_id]
                  Set(id) == id # 0
              IN  SelectSeq(all, Set)]

NoDocIdReason == [text |-> "matched student without doc_id", ids |-> << >>]

\* matched_row_groups.setdefault(doc_id, []).append(idx): a dict in insertion order
TrackRow(groups, doc_id, idx) ==
    IF \E g \in 1..Len(groups) : groups[g].student_id = doc_id
    THEN [g \in 1..Len(groups) |->
            IF groups[g].student_id = doc_id
            THEN [groups[g] EXCEPT !.row_indexes = Append(@, idx)]
            ELSE groups[g]]
    ELSE Append(groups, [student_id |-> doc_id, row_indexes |-> <<idx>>])

\* A write that adds the changed document under a new identifier
WriteAdd(st, s, row) ==
    IF update_changed(s, row) /\ s.doc_id # 0
    THEN Append(st, UpdatedData(s, row))
    ELSE st

\* The write of _update_student_if_changed: set(new_data, merge=False)
WriteUpdate(st, s, row) ==
    IF update_changed(s, row) /\ s.doc_id # 0
    THEN [st EXCEPT ![s.doc_id] = UpdatedData(s, row)]
    ELSE st

\* An iteration that matches the row against the store as it is now, the
\* students created by the rows before it among them
row_step_reloading(row, idx, st, rep, groups, studs, byEmail, byTg) ==
    LET now     == SnapshotStudents(st)
        matches == match_students(row, EmailIndex(now), HandleIndex(now), now)
        same    == [store |-> st, report |-> rep, groups |-> groups]
    IN  IF is_empty_row(row) THEN same
        ELSE IF Len(matches) = 0
        THEN [same EXCEPT !.store  = Append(st, create_student(row)),
                          !.report = [rep EXCEPT !.created = @ + 1]]
        ELSE IF Len(matches) > 1
        THEN [same EXCEPT !.report = [rep EXCEPT !.ambiguous_rows =
                                        Append(@, <<idx, MultipleReason(matches, now)>>)]]
        ELSE LET s == now[matches[1]]
             IN  [store  |-> WriteUpdate(st, s, row),
                  report |-> IF update_changed(s, row)
                             THEN [rep EXCEPT !.updated = @ + 1]
                             ELSE rep,
                  groups |-> TrackRow(groups, s.doc_id, idx)]

\* An iteration that counts an ambiguous row as created too
row_step_counting_twice(row, idx, st, rep, groups, studs, byEmail, byTg) ==
    LET matches == match_students(row, byEmail, byTg, studs)
        same    == [store |-> st, report |-> rep, groups |-> groups]
    IN  IF is_empty_row(row) THEN same
        ELSE IF Len(matches) = 0
        THEN [same EXCEPT !.store  = Append(st, create_student(row)),
                          !.report = [rep EXCEPT !.created = @ + 1]]
        ELSE IF Len(matches) > 1
        THEN [same EXCEPT !.report = [rep EXCEPT !.created = @ + 1,
                                                 !.ambiguous_rows =
                                        Append(@, <<idx, MultipleReason(matches, studs)>>)]]
        ELSE LET s == studs[matches[1]]
             IN  [store  |-> WriteUpdate(st, s, row),
                  report |-> IF update_changed(s, row)
                             THEN [rep EXCEPT !.updated = @ + 1]
                             ELSE rep,
                  groups |-> TrackRow(groups, s.doc_id, idx)]

\* An iteration that creates no student when the store, as it is now, holds a
\* student with an email of the row
row_step_create_if_absent(row, idx, st, rep, groups, studs, byEmail, byTg) ==
    LET matches == match_students(row, byEmail, byTg, studs)
        same    == [store |-> st, report |-> rep, groups |-> groups]
        held    == \E d \in 1..Len(st) :
                      \E e \in {row.cub_email, row.personal_email} \ {<< >>} :
                          e \in StudentEmails(st[d])
    IN  IF is_empty_row(row) THEN same
        ELSE IF Len(matches) = 0
        THEN IF held THEN same
             ELSE [same EXCEPT !.store  = Append(st, create_student(row)),
                               !.report = [rep EXCEPT !.created = @ + 1]]
        ELSE IF Len(matches) > 1
        THEN [same EXCEPT !.report = [rep EXCEPT !.ambiguous_rows =
                                        Append(@, <<idx, MultipleReason(matches, studs)>>)]]
        ELSE LET s == studs[matches[1]]
             IN  [store  |-> WriteUpdate(st, s, row),
                  report |-> IF update_changed(s, row)
                             THEN [rep EXCEPT !.updated = @ + 1]
                             ELSE rep,
                  groups |-> TrackRow(groups, s.doc_id, idx)]

\* One iteration of the loop: the store, the report and matched_row_groups after it
RowStep(row, idx, st, rep, groups, studs, byEmail, byTg) ==
    LET matches == match_students(row, byEmail, byTg, studs)
        same    == [store |-> st, report |-> rep, groups |-> groups]
    IN  IF is_empty_row(row) THEN same
        ELSE IF Len(matches) = 0
        THEN [same EXCEPT !.store  = Append(st, create_student(row)),
                          !.report = [rep EXCEPT !.created = @ + 1]]
        ELSE IF Len(matches) > 1
        THEN [same EXCEPT !.report = [rep EXCEPT !.ambiguous_rows =
                                        Append(@, <<idx, MultipleReason(matches, studs)>>)]]
        ELSE LET s == studs[matches[1]]
             IN  IF s.doc_id = 0
                 THEN [same EXCEPT !.report = [rep EXCEPT !.ambiguous_rows =
                                                 Append(@, <<idx, NoDocIdReason>>)]]
                 ELSE [store  |-> WriteUpdate(st, s, row),
                       report |-> IF update_changed(s, row)
                                  THEN [rep EXCEPT !.updated = @ + 1]
                                  ELSE rep,
                       groups |-> TrackRow(groups, s.doc_id, idx)]

\* Groups built also for a student matched by one row
build_groups_of_one(groups) ==
    LET Some(g) == Len(g.row_indexes) > 0
    IN  SelectSeq(groups, Some)

\* Build duplicate groups where a single student matched multiple rows
build_duplicate_groups(groups) ==
    LET Multi(g) == Len(g.row_indexes) > 1
    IN  SelectSeq(groups, Multi)

(***************************************************************************)
(* search/search_service.py: SearchService.                                *)
(* A lookup that fails has streamed some of its results before it fails:   *)
(* fetch_by_pair appends inside the try and returns what it has.           *)
(***************************************************************************)
\* No call of search_students
NoSearch ==
    [called |-> FALSE, query |-> << >>, failed_pairs |-> {}, delivered |-> 0,
     scan_fails |-> FALSE, raised |-> FALSE, result |-> << >>]

\* The first n elements of a sequence, all of it when it is shorter
Prefix(seq, n) == SubSeq(seq, 1, IF n < Len(seq) THEN n ELSE Len(seq))

\* where("name_pairs", "array_contains", pair).stream(): the documents one of
\* whose name_pairs elements is the pair, in stream order
PairStream(pair, st) == Ascending({k \in 1..Len(st) : InSeq(pair, st[k].name_pairs)})

\* fetch_by_pair: the stream, or what it delivered before the exception
fetch_by_pair(pair, st, failed_pairs, delivered) ==
    IF pair \in failed_pairs
    THEN Prefix(PairStream(pair, st), delivered)
    ELSE PairStream(pair, st)

\* fetch_all: every document of the collection, in stream order
fetch_all(st) == [k \in 1..Len(st) |-> k]

RECURSIVE FoundByPairs(_, _, _, _, _)
\* for pair in generate_ordered_pairs(tokens): for s in fetch_by_pair(pair): ...
FoundByPairs(found, pairs, st, failed_pairs, delivered) ==
    IF pairs = << >> THEN found
    ELSE Only({FoundByPairs(
                  AddMatches(fnd, SnapshotStudents(st),
                             fetch_by_pair(Head(pairs), st, failed_pairs, delivered)),
                  Tail(pairs), st, failed_pairs, delivered) : fnd \in {found}})

\* A test of the first name alone
TokenInFirstName(tok, s) == InSeq(tok, tokenize_names(<<normalize(s.first_name)>>))

\* if tok in tokenize_names(fn) or tok in tokenize_names(ln)
TokenInNames(tok, s) ==
    \/ InSeq(tok, tokenize_names(<<normalize(s.first_name)>>))
    \/ InSeq(tok, tokenize_names(<<normalize(s.last_name)>>))

\* Single token or broad fallback: fetch all and filter client-side
FoundByScan(tok, st) ==
    LET studs == SnapshotStudents(st)
        all_students == fetch_all(st)
    IN  AddMatches(<< >>, studs,
                   Ascending({k \in SeqToSet(all_students) : TokenInNames(tok, studs[k])}))

\* A search that never looks a pair up
search_by_scan_only(query, st, failed_pairs, delivered, scan_fails) ==
    LET tokens == tokenize_names(<<normalize(query)>>)
    IN  IF tokens = << >> THEN [raised |-> FALSE, result |-> << >>]
        ELSE IF scan_fails THEN [raised |-> TRUE, result |-> << >>]
        ELSE [raised |-> FALSE, result |-> FoundByScan(tokens[1], st)]

\* A search that goes on to the scan after the pairs found students
search_falling_through(query, st, failed_pairs, delivered, scan_fails) ==
    LET tokens == tokenize_names(<<normalize(query)>>)
        studs  == SnapshotStudents(st)
        found  == IF Len(tokens) >= 2
                  THEN FoundByPairs(<< >>, generate_ordered_pairs(tokens), st,
                                    failed_pairs, delivered)
                  ELSE << >>
    IN  IF tokens = << >> THEN [raised |-> FALSE, result |-> << >>]
        ELSE IF scan_fails THEN [raised |-> TRUE, result |-> << >>]
        ELSE [raised |-> FALSE,
              result |-> AddMatches(found, studs, FoundByScan(tokens[1], st))]

\* A search that returns nothing when the read of the collection fails
search_swallowing_scan_failure(query, st, failed_pairs, delivered, scan_fails) ==
    LET tokens == tokenize_names(<<normalize(query)>>)
        found  == IF Len(tokens) >= 2
                  THEN FoundByPairs(<< >>, generate_ordered_pairs(tokens), st,
                                    failed_pairs, delivered)
                  ELSE << >>
    IN  IF tokens = << >> THEN [raised |-> FALSE, result |-> << >>]
        ELSE IF found # << >> THEN [raised |-> FALSE, result |-> found]
        ELSE IF scan_fails THEN [raised |-> FALSE, result |-> << >>]
        ELSE [raised |-> FALSE, result |-> FoundByScan(tokens[1], st)]

\* search_students: whether it raised, and the doc_ids of the list it returned
search_students(query, st, failed_pairs, delivered, scan_fails) ==
    LET tokens == tokenize_names(<<normalize(query)>>)
        found  == IF Len(tokens) >= 2
                  THEN FoundByPairs(<< >>, generate_ordered_pairs(tokens), st,
                                    failed_pairs, delivered)
                  ELSE << >>
    IN  IF tokens = << >> THEN [raised |-> FALSE, result |-> << >>]
        ELSE IF found # << >> THEN [raised |-> FALSE, result |-> found]
        ELSE IF scan_fails THEN [raised |-> TRUE, result |-> << >>]
        ELSE [raised |-> FALSE, result |-> FoundByScan(tokens[1], st)]

(***************************************************************************)
(* The stored students a behaviour starts from, and the CSV rows a batch   *)
(* is made of.                                                             *)
(***************************************************************************)
\* common/sample_db.py: john.  Stored with a personal email in mixed case.
john ==
    Student([first_name |-> <<"A">>, last_name |-> <<"B">>,
             cub_email |-> <<"a", "@", "c">>, personal_email |-> <<"A", "@", "p">>,
             telegram_name |-> <<"@", "a">>, telegram_id |-> 7, admission_year |-> 2023,
             scholarship |-> <<"n">>, citizenship |-> <<"u">>,
             public_comment |-> <<"r">>, secret_comment |-> <<"t">>,
             matric_number |-> <<"1">>])

\* common/sample_db.py: jane.  No handle, no matriculation number; her personal
\* email is john's CUB email and she shares john's first name.
jane ==
    Student([first_name |-> <<"A">>, last_name |-> <<"C">>,
             cub_email |-> << >>, personal_email |-> <<"a", "@", "c">>,
             telegram_name |-> << >>, telegram_id |-> 3, admission_year |-> 2022,
             scholarship |-> <<"f">>, citizenship |-> <<"k">>,
             public_comment |-> <<"e">>, secret_comment |-> << >>])

\* importing/test_importing.py: a student sharing john's handle, stored without
\* the @ and in upper case; a one-token name
dup ==
    Student([first_name |-> <<"D">>, last_name |-> << >>,
             cub_email |-> <<"d", "@", "c">>, personal_email |-> << >>,
             telegram_name |-> <<"A">>, telegram_id |-> 0, admission_year |-> 2025,
             scholarship |-> << >>, citizenship |-> << >>,
             public_comment |-> << >>, secret_comment |-> << >>])

\* A student with blank emails and a placeholder handle
anon ==
    Student([first_name |-> <<"E">>, last_name |-> << >>,
             cub_email |-> << >>, personal_email |-> << >>,
             telegram_name |-> <<"-">>, telegram_id |-> 0, admission_year |-> 2025,
             scholarship |-> << >>, citizenship |-> << >>,
             public_comment |-> << >>, secret_comment |-> << >>])

SeedStudents == <<john, jane, dup, anon>>

\* The stores a behaviour may start from: any of the seed students, in stream order
SeedStores ==
    {[k \in 1..Len(Ascending(S)) |-> SeedStudents[Ascending(S)[k]]] :
        S \in SUBSET (1..Len(SeedStudents))}

\* A row of csv.DictReader under the headers of the sample file
CsvRow(last, first, email, cub, tg, matric, cit, grant, comment) ==
    [x \in {"Last name", "First name", "Email", "CUB Email", "Telegram",
            "Matriculation Num.", "Citizenship", "Type of grant", "Comment"} |->
        CASE x = "Last name" -> last [] x = "First name" -> first
          [] x = "Email" -> email [] x = "CUB Email" -> cub [] x = "Telegram" -> tg
          [] x = "Matriculation Num." -> matric [] x = "Citizenship" -> cit
          [] x = "Type of grant" -> grant [] x = "Comment" -> comment]

E == << >>

CsvRows ==
    { \* john by personal email, a new grant (test_update_by_email_changes_field)
      CsvRow(<<"B">>, <<"A">>, <<"a", "@", "p">>, E, E, E, <<"u">>, <<"p">>, E),
      \* john by personal email written in upper case, a comment and no grant
      CsvRow(E, E, <<"A", "@", "P", " ">>, E, E, <<"2">>, E, E, <<"d">>),
      \* john by personal email, another first name
      CsvRow(E, <<"C">>, <<"a", "@", "p">>, E, E, E, E, E, E),
      \* a handle only (test_ambiguous_by_telegram)
      CsvRow(E, E, E, E, <<"@", "A">>, E, E, <<" ">>, E),
      \* a first name only, with a grant
      CsvRow(E, <<"A">>, E, E, E, E, E, <<"p">>, E),
      \* the email john and jane share, dup's handle and dup's name
      CsvRow(E, <<"D">>, E, <<"a", "@", "c">>, <<"a">>, E, E, E, <<"d">>),
      \* a placeholder handle and anon's name
      CsvRow(E, <<"e">>, E, E, <<"-">>, E, <<"k">>, E, E),
      \* a blank row: a placeholder handle and spaces
      CsvRow(E, <<" ">>, E, E, <<"N", "/", "A">>, E, E, E, E),
      \* a student nobody knows
      CsvRow(<<"O">>, <<"N">>, <<"n", "@", "c">>, E, <<"n">>, E, E, <<"f">>, E),
      \* a grant and nothing that identifies anybody
      CsvRow(E, E, E, E, E, E, E, <<"f">>, E),
      \* john by personal email, another first name and another last name
      CsvRow(<<"O">>, <<"N">>, <<"a", "@", "p">>, E, E, E, E, E, E) }

RECURSIVE SeqsUpTo(_, _)
\* The sequences over S of length at most n
SeqsUpTo(S, n) ==
    IF n = 0 THEN {<< >>}
    ELSE LET shorter == SeqsUpTo(S, n - 1)
         IN  shorter \cup {Append(q, x) : q \in shorter, x \in S}

Batches == SeqsUpTo(CsvRows, MaxRows)

(***************************************************************************)
(* The state.                                                              *)
(***************************************************************************)
VARIABLES
    store,               \* the students collection: document id -> document
    pc,                  \* "idle", or "loop" inside import_csv_file
    batch,               \* the rows read from the file of the current or last call
    rows,                \* the normalised rows
    students,            \* the snapshot loaded by _load_students_index
    by_email,            \* its index by email
    by_tg,               \* its index by handle
    report,              \* the ImportReport of the current or last call
    matched_row_groups,  \* doc_id -> row indexes, in insertion order
    i,                   \* the position of the next row of the loop
    files,               \* the number of files imported so far
    repeats,             \* the number of calls that imported the last file again
    again,               \* the current or last call repeats the batch of the call before it
    prevReport,          \* the report the call before it returned
    search,              \* the last call of search_students since the last import, if any
    pairing,             \* the last call of generate_ordered_pairs on a list of its own
    other,               \* a second call of import_csv_file, made by another caller
    construction         \* the last construction of a Student from data of its own

vars == <<store, pc, batch, rows, students, by_email, by_tg, report,
          matched_row_groups, i, files, repeats, again, prevReport, search, pairing,
          other, construction>>

Init ==
    /\ store \in SeedStores
    /\ pc = "idle"
    /\ batch = << >>
    /\ rows = << >>
    /\ students = << >>
    /\ by_email = EmptyDict
    /\ by_tg = EmptyDict
    /\ report = EmptyReport
    /\ matched_row_groups = << >>
    /\ i = 1
    /\ files = 0
    /\ repeats = 0
    /\ again = FALSE
    /\ prevReport = EmptyReport
    /\ search = NoSearch
    /\ pairing = NoPairing
    /\ other = NoOther
    /\ construction = NoConstruction

\* import_csv_file up to the loop: the rows normalised, the snapshot loaded
BeginImport(f, repeat) ==
    /\ pc = "idle"
    /\ batch' = f
    /\ rows' = [k \in 1..Len(f) |-> normalize_row(f[k])]
    /\ students' = SnapshotStudents(store)
    /\ by_email' = EmailIndex(SnapshotStudents(store))
    /\ by_tg' = HandleIndex(SnapshotStudents(store))
    /\ report' = EmptyReport
    /\ matched_row_groups' = << >>
    /\ i' = 1
    /\ pc' = "loop"
    /\ again' = repeat
    /\ prevReport' = report
    /\ search' = NoSearch
    /\ UNCHANGED <<store, pairing, other, construction>>

\* A call of import_csv_file on a file f
ImportStart(f) ==
    /\ files < MaxFiles
    /\ BeginImport(f, FALSE)
    /\ files' = files + 1
    /\ repeats' = 0

\* A call of import_csv_file on the file of the call before, the store untouched since
ImportAgain ==
    /\ files > 0
    /\ repeats < MaxRepeats
    /\ BeginImport(batch, TRUE)
    /\ repeats' = repeats + 1
    /\ UNCHANGED files

\* One iteration of the loop of import_csv_file
ProcessRow ==
    /\ pc = "loop"
    /\ i <= Len(rows)
    /\ LET after == RowStep(rows[i], RowIndexStart + (i - 1), store, report,
                            matched_row_groups, students, by_email, by_tg)
       IN  /\ store' = after.store
           /\ report' = after.report
           /\ matched_row_groups' = after.groups
    /\ i' = i + 1
    /\ UNCHANGED <<pc, batch, rows, students, by_email, by_tg, files, repeats, again,
                   prevReport, search, pairing, other, construction>>

\* The end of import_csv_file: the duplicate groups, and the return
ImportFinish ==
    /\ pc = "loop"
    /\ i > Len(rows)
    /\ report' = [report EXCEPT !.duplicate_groups =
                    @ \o build_duplicate_groups(matched_row_groups)]
    /\ pc' = "idle"
    /\ UNCHANGED <<store, batch, rows, students, by_email, by_tg,
                   matched_row_groups, i, files, repeats, again, prevReport, search, pairing,
                   other, construction>>

Next ==
    \/ \E f \in Batches : ImportStart(f)
    \/ ImportAgain
    \/ ProcessRow
    \/ ImportFinish

Spec == Init /\ [][Next]_vars

(***************************************************************************)
(* Calls of search_students between imports, with the lookups that fail.   *)
(***************************************************************************)
\* The results a failing lookup may have streamed before it failed
MaxDelivered == 1

\* The queries: john's name, a name two created students share, a last name,
\* a first name with a token nobody has, and a query without a token
Queries ==
    { <<"A", " ", "B">>,
      <<"n", " ", " ", "o">>,
      <<"B">>,
      <<"a", " ", "e">>,
      <<"-">> }

\* The pairs search_students looks up for a query
QueryPairs(q) == SeqToSet(generate_ordered_pairs(tokenize_names(<<normalize(q)>>)))

\* A call of search_students(q) during which the lookups of failed_pairs fail
\* after `delivered` results and, if scan_fails, the read of fetch_all fails.
\* The calls are independent of each other: one is followed between two imports.
Search(q, failed_pairs, delivered, scan_fails) ==
    /\ pc = "idle"
    /\ ~search.called
    /\ LET out == search_students(q, store, failed_pairs, delivered, scan_fails)
       IN  search' = [called |-> TRUE, query |-> q, failed_pairs |-> failed_pairs,
                      delivered |-> delivered, scan_fails |-> scan_fails,
                      raised |-> out.raised, result |-> out.result]
    /\ UNCHANGED <<store, pc, batch, rows, students, by_email, by_tg, report,
                   matched_row_groups, i, files, repeats, again, prevReport, pairing,
                   other, construction>>

NextSearch ==
    \/ Next
    \/ \E q \in Queries : \E failed_pairs \in SUBSET QueryPairs(q) :
          \E delivered \in 0..MaxDelivered : \E scan_fails \in BOOLEAN :
              /\ failed_pairs = {} => delivered = 0
              /\ Search(q, failed_pairs, delivered, scan_fails)

SearchSpec == Init /\ [][NextSearch]_vars

(***************************************************************************)
(* Imports during which a write to the store may fail.  Neither            *)
(* _create_student nor _update_student_if_changed nor the loop of          *)
(* import_csv_file catches the exception of add() or set(): it leaves      *)
(* import_csv_file, and the write may or may not have reached the store.   *)
(***************************************************************************)
\* The row the loop is at makes _create_student or _update_student_if_changed write
RowWrites ==
    /\ pc = "loop"
    /\ i <= Len(rows)
    /\ ~is_empty_row(rows[i])
    /\ LET matches == match_students(rows[i], by_email, by_tg, students)
       IN  \/ Len(matches) = 0
           \/ /\ Len(matches) = 1
              /\ students[matches[1]].doc_id # 0
              /\ update_changed(students[matches[1]], rows[i])

\* The write of the row raises: import_csv_file ends without a report
RowWriteFails ==
    /\ RowWrites
    /\ \E applied \in BOOLEAN :
          store' = IF applied
                   THEN RowStep(rows[i], RowIndexStart + (i - 1), store, report,
                                matched_row_groups, students, by_email, by_tg).store
                   ELSE store
    /\ pc' = "raised"
    /\ UNCHANGED <<batch, rows, students, by_email, by_tg, report, matched_row_groups,
                   i, files, repeats, again, prevReport, search, pairing, other,
                   construction>>

NextFault ==
    \/ Next
    \/ RowWriteFails

FaultSpec == Init /\ [][NextFault]_vars

(***************************************************************************)
(* Calls of generate_ordered_pairs on lists of distinct tokens, as          *)
(* tokenize_names returns them.                                            *)
(***************************************************************************)
\* The longest list of tokens
MaxTokens == 3

\* The tokens the lists are made of: one letter, several letters, an apostrophe
TokenPool == {<<"a">>, <<"b", "c">>, <<"d">>, <<"o", "'", "n">>}

\* The lists of at most MaxTokens tokens, no token twice
TokenLists ==
    {l \in SeqsUpTo(TokenPool, MaxTokens) : Cardinality(SeqToSet(l)) = Len(l)}

\* A call of generate_ordered_pairs(tokens)
GeneratePairs(tokens) ==
    /\ pc = "idle"
    /\ pairing' = [called |-> TRUE, tokens |-> tokens,
                   pairs |-> generate_ordered_pairs(tokens)]
    /\ UNCHANGED <<store, pc, batch, rows, students, by_email, by_tg, report,
                   matched_row_groups, i, files, repeats, again, prevReport, search,
                   other, construction>>

NextPairs == \E tokens \in TokenLists : GeneratePairs(tokens)

PairsSpec == Init /\ [][NextPairs]_vars

(***************************************************************************)
(* Two callers of import_csv_file on the same store.  Nothing in           *)
(* ImportService coordinates them: each call loads its own snapshot with   *)
(* one read of the collection and then makes one write per row, add() or   *)
(* set(); the reads and the writes of the two calls interleave in any      *)
(* order.  The second call starts while the first is in its loop.          *)
(***************************************************************************)
\* Largest number of data rows in the file of the second caller
MaxRaceRows == 1

\* The rows of the files of the second caller: the student nobody knows, john
\* by personal email with a new grant, and a grant that identifies nobody
RaceRows ==
    { CsvRow(<<"O">>, <<"N">>, <<"n", "@", "c">>, E, <<"n">>, E, E, <<"f">>, E),
      CsvRow(<<"B">>, <<"A">>, <<"a", "@", "p">>, E, E, E, <<"u">>, <<"p">>, E),
      CsvRow(E, E, E, E, E, E, E, <<"f">>, E) }

RaceBatches == SeqsUpTo(RaceRows, MaxRaceRows)

\* The second call of import_csv_file up to its loop
OtherStart(f) ==
    /\ pc = "loop"
    /\ ~other.started
    /\ other' = [started |-> TRUE, pc |-> "loop",
                 rows |-> [k \in 1..Len(f) |-> normalize_row(f[k])],
                 students |-> SnapshotStudents(store),
                 by_email |-> EmailIndex(SnapshotStudents(store)),
                 by_tg |-> HandleIndex(SnapshotStudents(store)),
                 report |-> EmptyReport, matched_row_groups |-> << >>, i |-> 1]
    /\ UNCHANGED <<store, pc, batch, rows, students, by_email, by_tg, report,
                   matched_row_groups, i, files, repeats, again, prevReport, search,
                   pairing, construction>>

\* One iteration of the loop of the second call
OtherProcessRow ==
    /\ other.pc = "loop"
    /\ other.i <= Len(other.rows)
    /\ LET after == RowStep(other.rows[other.i], RowIndexStart + (other.i - 1), store,
                            other.report, other.matched_row_groups, other.students,
                            other.by_email, other.by_tg)
       IN  /\ store' = after.store
           /\ other' = [other EXCEPT !.report = after.report,
                                     !.matched_row_groups = after.groups,
                                     !.i = @ + 1]
    /\ UNCHANGED <<pc, batch, rows, students, by_email, by_tg, report,
                   matched_row_groups, i, files, repeats, again, prevReport, search,
                   pairing, construction>>

\* The end of the second call
OtherFinish ==
    /\ other.pc = "loop"
    /\ other.i > Len(other.rows)
    /\ other' = [other EXCEPT !.report.duplicate_groups =
                                 @ \o build_duplicate_groups(other.matched_row_groups),
                              !.pc = "idle"]
    /\ UNCHANGED <<store, pc, batch, rows, students, by_email, by_tg, report,
                   matched_row_groups, i, files, repeats, again, prevReport, search,
                   pairing, construction>>

NextRace ==
    \/ \E f \in Batches : ImportStart(f)
    \/ ProcessRow
    \/ ImportFinish
    \/ \E f \in RaceBatches : OtherStart(f)
    \/ OtherProcessRow
    \/ OtherFinish

RaceSpec == Init /\ [][NextRace]_vars

(***************************************************************************)
(* Constructions of a Student from keyword data, with and without          *)
(* name_pairs among the keywords.                                          *)
(***************************************************************************)
\* The first and last names: none, one token, a hyphenated token, two tokens
NameParts ==
    { << >>, <<"A">>, <<"B">>, <<"A", "-", "B">>, <<"C", " ", "D">> }

\* The name_pairs supplied: none, the pairs of "A B", one pair only, and pairs
\* of tokens no name of NameParts has
SuppliedPairs ==
    { << >>,
      <<<<"a", " ", "b">>, <<"b", " ", "a">>>>,
      <<<<"b", " ", "a">>>>,
      <<<<"n", " ", "o">>, <<"o", " ", "n">>>> }

\* The keyword data without name_pairs
NamedData(first, last) ==
    [first_name |-> first, last_name |-> last,
     cub_email |-> << >>, personal_email |-> << >>, telegram_name |-> << >>,
     telegram_id |-> 0, admission_year |-> default_admission_year,
     scholarship |-> << >>, citizenship |-> << >>]

ConstructionData ==
    {NamedData(first, last) : first \in NameParts, last \in NameParts}
    \cup {Put(NamedData(first, last), "name_pairs", np) :
             first \in NameParts, last \in NameParts, np \in SuppliedPairs}

\* Student(**data)
Construct(data) ==
    /\ pc = "idle"
    /\ construction' = [called |-> TRUE, data |-> data, student |-> Student(data)]
    /\ UNCHANGED <<store, pc, batch, rows, students, by_email, by_tg, report,
                   matched_row_groups, i, files, repeats, again, prevReport, search,
                   pairing, other>>

NextConstruct == \E data \in ConstructionData : Construct(data)

ConstructSpec == Init /\ [][NextConstruct]_vars

(***************************************************************************)
(* The vocabulary of the claims, stated from the specification and not    *)
(* through the indexes of the code.                                        *)
(***************************************************************************)
\* The ordered pairs of distinct tokens of tokenize(first_name, last_name)
DerivedPairs(first, last) ==
    LET toks == SeqToSet(tokenize_names(<<first, last>>))
    IN  {PairString(t[1], t[2]) : t \in {u \in toks \X toks : u[1] # u[2]}}

\* name_pairs equals, as a set, the pairs derived from the names
IndexConsistent(doc) ==
    SeqToSet(doc.name_pairs) = DerivedPairs(doc.first_name, doc.last_name)

\* Equal up to case
SameNoCase(a, b) == Lower(a) = Lower(b)

\* The email tier: the ids of the students one of whose emails is a non-blank
\* email of the row
EmailTier(row, studs) ==
    {studs[k].doc_id : k \in
        {j \in 1..Len(studs) :
            \E e \in {row.cub_email, row.personal_email} :
                /\ e # << >>
                /\ \/ SameNoCase(e, studs[j].cub_email)
                   \/ SameNoCase(e, studs[j].personal_email)}}

\* A handle that is blank or a placeholder
BlankHandle(h) == Strip(h) = << >> \/ Lower(Strip(h)) \in Placeholders

\* A handle in canonical form: a leading @, lower case
Canonical(h) ==
    LET t == Lower(Strip(h))
    IN  IF t # << >> /\ Head(t) = "@" THEN t ELSE <<"@">> \o t

\* The handle tier: the ids of the students whose handle is the row's, both
\* canonical, neither blank
HandleTier(row, studs) ==
    {studs[k].doc_id : k \in
        {j \in 1..Len(studs) :
            /\ ~BlankHandle(row.telegram_name)
            /\ ~BlankHandle(studs[j].telegram_name)
            /\ Canonical(row.telegram_name) = Canonical(studs[j].telegram_name)}}

NameTokens(first, last) == SeqToSet(tokenize_names(<<first, last>>))

\* The name tier: the ids of the students whose tokens include all of the row's
NameTier(row, studs) ==
    {studs[k].doc_id : k \in
        {j \in 1..Len(studs) :
            /\ NameTokens(row.first_name, row.last_name) # {}
            /\ NameTokens(row.first_name, row.last_name) \subseteq
                  NameTokens(studs[j].first_name, studs[j].last_name)}}

\* The winning tier of a row: the first tier that is not empty
WinningTier(row, studs) ==
    IF EmailTier(row, studs) # {} THEN EmailTier(row, studs)
    ELSE IF HandleTier(row, studs) # {} THEN HandleTier(row, studs)
    ELSE NameTier(row, studs)

\* A row none of whose nine fields holds anything
BlankRow(row) == \A k \in RowFields : row[k] = << >>

\* The students row j of the batch resolves to, none for a blank row
Resolves(j) == IF BlankRow(rows[j]) THEN {} ELSE WinningTier(rows[j], students)

\* The loop is about to process row i
AtRow == pc = "loop" /\ i <= Len(rows)

\* The call has returned
Returned == pc = "idle" /\ files > 0

\* The row index the report gives to the row at position j
RowIndex(j) == j + 1

(***************************************************************************)
(* C1.  Index consistency: starting from a store whose every name_pairs   *)
(* equals the pairs derived from the names, every stored student's        *)
(* name_pairs equals the derived pair set after any sequence of imports,  *)
(* also after an update that changes a name.                               *)
(* The code keeps the old name_pairs when an update changes a name.        *)
(***************************************************************************)
C1_IndexConsistency == \A d \in 1..Len(store) : IndexConsistent(store[d])

(***************************************************************************)
(* C2.  Non-destructive fill: when a row resolves to exactly one stored   *)
(* student and no other row of the batch resolves to it, each of the nine *)
(* row fields of the stored record is afterwards the row's value if that  *)
(* is not empty and the stored value before otherwise, and telegram_id,   *)
(* admission_year and secret_comment are as before.                        *)
(***************************************************************************)
\* Row i is the only row of the batch that resolves to student d
SoleRowOf(j, d) ==
    /\ Resolves(j) = {d}
    /\ \A k \in 1..Len(rows) : k # j => Resolves(k) # {d}

\* The record after is the record before filled from the row
FilledFrom(before, row, after) ==
    /\ \A k \in RowFields :
          after[k] = IF row[k] # << >> THEN row[k] ELSE before[k]
    /\ after.telegram_id = before.telegram_id
    /\ after.admission_year = before.admission_year
    /\ after.secret_comment = before.secret_comment

C2_NonDestructiveFill ==
    [][\A d \in 1..Len(store) :
          (AtRow /\ SoleRowOf(i, d)) => FilledFrom(store[d], rows[i], store'[d])]_vars

\* A sole row has been processed and has changed its student
C2_Witness ==
    /\ pc = "loop"
    /\ \E j \in 1..(i - 1) : \E d \in 1..Len(students) :
          /\ SoleRowOf(j, d)
          /\ store[d] # model_dump(students[d])
          /\ store[d].secret_comment # << >>
          /\ \E k \in RowFields : rows[j][k] = << >> /\ store[d][k] # << >>

(***************************************************************************)
(* C3.  Idempotence: importing a batch and then the same batch again,     *)
(* nothing else touching the store in between, reports updated = 0 the    *)
(* second time.                                                            *)
(* It fails for a batch with two rows that resolve to the same student    *)
(* and for a batch with a row that was ambiguous the first time.  It      *)
(* holds when the first import reported no ambiguous row and no duplicate *)
(* group.                                                                  *)
(***************************************************************************)
C3_Idempotence == (Returned /\ again) => report.updated = 0

C3_IdempotenceCleanBatch ==
    (/\ Returned
     /\ again
     /\ prevReport.ambiguous_rows = << >>
     /\ prevReport.duplicate_groups = << >>) => report.updated = 0

\* A batch that created and updated students, without ambiguous rows or
\* duplicate groups, has been imported a second time
C3_Witness ==
    /\ Returned
    /\ again
    /\ prevReport.ambiguous_rows = << >>
    /\ prevReport.duplicate_groups = << >>
    /\ prevReport.updated > 0
    /\ prevReport.created > 0

(***************************************************************************)
(* C4.  Ambiguous row: when the winning tier of a row holds more than one *)
(* stored student, the row adds exactly one entry to ambiguous_rows, with *)
(* its row index and the colliding ids, created and updated stay as they  *)
(* are and the store is unchanged.                                         *)
(***************************************************************************)
C4_AmbiguousRow ==
    [][(AtRow /\ Cardinality(Resolves(i)) > 1) =>
          /\ report'.ambiguous_rows # << >>
          /\ report.ambiguous_rows =
                SubSeq(report'.ambiguous_rows, 1, Len(report'.ambiguous_rows) - 1)
          /\ report'.ambiguous_rows[Len(report'.ambiguous_rows)][1] = RowIndex(i)
          /\ SeqToSet(report'.ambiguous_rows[Len(report'.ambiguous_rows)][2].ids)
                = Resolves(i)
          /\ report'.created = report.created
          /\ report'.updated = report.updated
          /\ store' = store]_vars

\* A row with several students in its winning tier has been processed
C4_Witness ==
    /\ pc = "loop"
    /\ \E j \in 1..(i - 1) :
          /\ Cardinality(Resolves(j)) > 1
          /\ \E a \in 1..Len(report.ambiguous_rows) :
                report.ambiguous_rows[a][1] = RowIndex(j)

(***************************************************************************)
(* C5.  Duplicate groups: when the call returns, the report holds exactly *)
(* one group for every student that was the single match of two or more   *)
(* rows, listing the indexes of all those rows in row order, whether or   *)
(* not the rows changed the student, and no group for any other student.  *)
(***************************************************************************)
\* The rows of the batch whose single match is student d
RowsOf(d) == {j \in 1..Len(rows) : Resolves(j) = {d}}

C5_DuplicateGroups ==
    Returned =>
        LET groups == report.duplicate_groups
        IN  /\ \A d \in 1..Len(students) :
                  Cardinality(RowsOf(d)) >= 2 =>
                      \E g \in 1..Len(groups) :
                          /\ groups[g].student_id = d
                          /\ groups[g].row_indexes =
                                [k \in 1..Cardinality(RowsOf(d)) |->
                                    RowIndex(Ascending(RowsOf(d))[k])]
            /\ \A g \in 1..Len(groups) :
                  /\ groups[g].student_id \in 1..Len(students)
                  /\ Cardinality(RowsOf(groups[g].student_id)) >= 2
            /\ \A g, h \in 1..Len(groups) :
                  groups[g].student_id = groups[h].student_id => g = h

\* A call has returned a duplicate group and has changed nothing
C5_Witness ==
    /\ Returned
    /\ report.duplicate_groups # << >>
    /\ report.updated = 0

(***************************************************************************)
(* C6.  Identical rows: when two or more rows of a batch carry the same   *)
(* values and resolve to the same single student, only the first of them  *)
(* writes and counts in updated; a later one finds nothing changed.        *)
(* The code compares every row with the snapshot taken before the loop,   *)
(* so a later identical row is counted again.                              *)
(***************************************************************************)
C6_IdenticalRowsCountOnce ==
    [][\A d \in 1..Len(store) :
          (/\ AtRow
           /\ Resolves(i) = {d}
           /\ \E j \in 1..(i - 1) : rows[j] = rows[i] /\ Resolves(j) = {d})
          => (store' = store /\ report'.updated = report.updated)]_vars

(***************************************************************************)
(* C7.  Strict tier priority: the match set of a row is the email tier    *)
(* when that is not empty, whatever the handle or name of the row match;  *)
(* else the handle tier when that is not empty; the name tier only when   *)
(* both are empty.  Tiers are never unioned.                               *)
(***************************************************************************)
\* The ids of the students the code matches to row j
MatchSet(j) ==
    {students[k].doc_id : k \in SeqToSet(match_students(rows[j], by_email, by_tg, students))}

C7_TierPriority ==
    pc = "loop" =>
        \A j \in 1..Len(rows) :
            /\ EmailTier(rows[j], students) # {}
                  => MatchSet(j) = EmailTier(rows[j], students)
            /\ (EmailTier(rows[j], students) = {} /\ HandleTier(rows[j], students) # {})
                  => MatchSet(j) = HandleTier(rows[j], students)
            /\ (EmailTier(rows[j], students) = {} /\ HandleTier(rows[j], students) = {})
                  => MatchSet(j) = NameTier(rows[j], students)

\* A row matches one student by email and other students by handle and by name
C7_Witness ==
    /\ pc = "loop"
    /\ \E j \in 1..(i - 1) :
          /\ EmailTier(rows[j], students) # {}
          /\ HandleTier(rows[j], students) \ EmailTier(rows[j], students) # {}
          /\ NameTier(rows[j], students) \ EmailTier(rows[j], students) # {}

(***************************************************************************)
(* C8.  Blanks never match: a row whose two emails are blank matches no   *)
(* student by email; a row whose handle is blank or a placeholder matches *)
(* no student by handle, also when a stored email or handle is blank or a *)
(* placeholder; a non-blank email of the row matches every student one of *)
(* whose two emails equals it up to case, across the two fields.           *)
(***************************************************************************)
\* The ids of the students matched by email and by handle to row j
EmailMatches(j) ==
    {students[k].doc_id : k \in SeqToSet(MatchByEmail(rows[j], by_email, students))}

HandleMatches(j) ==
    {students[k].doc_id : k \in SeqToSet(MatchByHandle(rows[j], by_tg, students))}

\* The emails of row j as the file gives them
FileEmails(j) == {batch[j]["Email"], batch[j]["CUB Email"]}

C8_BlanksNeverMatch ==
    pc = "loop" =>
        \A j \in 1..Len(rows) :
            /\ (\A e \in FileEmails(j) : Strip(e) = << >>) => EmailMatches(j) = {}
            /\ BlankHandle(batch[j]["Telegram"]) => HandleMatches(j) = {}
            /\ \A d \in 1..Len(students) : \A e \in FileEmails(j) :
                  (/\ Strip(e) # << >>
                   /\ \/ SameNoCase(Strip(e), students[d].cub_email)
                      \/ SameNoCase(Strip(e), students[d].personal_email))
                  => students[d].doc_id \in EmailMatches(j)

\* A row with a placeholder handle meets a student that stores the same
\* placeholder and has blank emails as the row has; another row is matched
\* through its institutional email to the personal email of a student
C8_Witness ==
    /\ pc = "loop"
    /\ i > Len(rows)
    /\ \E j \in 1..Len(rows) : \E d \in 1..Len(students) :
          /\ BlankHandle(batch[j]["Telegram"])
          /\ Strip(batch[j]["Telegram"]) # << >>
          /\ students[d].telegram_name = Strip(batch[j]["Telegram"])
          /\ \A e \in FileEmails(j) : Strip(e) = << >>
          /\ students[d].cub_email = << >>
          /\ students[d].personal_email = << >>
    /\ \E j \in 1..Len(rows) : \E d \in 1..Len(students) :
          /\ Strip(batch[j]["CUB Email"]) # << >>
          /\ SameNoCase(Strip(batch[j]["CUB Email"]), students[d].personal_email)
          /\ ~SameNoCase(Strip(batch[j]["CUB Email"]), students[d].cub_email)
          /\ students[d].doc_id \in EmailMatches(j)

(***************************************************************************)
(* C9.  Name tier: when no student matches a row by email or by handle    *)
(* and the row has name tokens, the match set is exactly the students     *)
(* whose name tokens include every token of the row; when the row has no  *)
(* name token the name tier matches nothing.                               *)
(***************************************************************************)
\* The name tokens of row j and of student d
RowTokens(j) == NameTokens(rows[j].first_name, rows[j].last_name)

StudentTokens(d) == NameTokens(students[d].first_name, students[d].last_name)

C9_NameTier ==
    pc = "loop" =>
        \A j \in 1..Len(rows) :
            (EmailTier(rows[j], students) = {} /\ HandleTier(rows[j], students) = {}) =>
                IF RowTokens(j) # {}
                THEN MatchSet(j) = {students[d].doc_id : d \in
                                      {x \in 1..Len(students) :
                                          RowTokens(j) \subseteq StudentTokens(x)}}
                ELSE MatchSet(j) = {}

\* One row is matched by its name to a student with more tokens than the row;
\* another row with values and no name token reaches the name tier
C9_Witness ==
    /\ pc = "loop"
    /\ i > Len(rows)
    /\ \E j \in 1..Len(rows) : \E d \in 1..Len(students) :
          /\ EmailTier(rows[j], students) = {}
          /\ HandleTier(rows[j], students) = {}
          /\ RowTokens(j) # {}
          /\ RowTokens(j) # StudentTokens(d)
          /\ students[d].doc_id \in MatchSet(j)
    /\ \E j \in 1..Len(rows) :
          /\ ~BlankRow(rows[j])
          /\ EmailTier(rows[j], students) = {}
          /\ HandleTier(rows[j], students) = {}
          /\ RowTokens(j) = {}

(***************************************************************************)
(* C10.  Create on zero matches: a row that holds a value and matches no  *)
(* student adds exactly one student to the store and adds one to created; *)
(* the new student's nine row fields equal the values of the row, its     *)
(* telegram_id is 0, its admission_year the configured default, its       *)
(* secret_comment empty and its name_pairs the pairs derived from the     *)
(* names of the row; no stored student is modified.                        *)
(* The code leaves matric_number null, not empty, when the row has none.  *)
(***************************************************************************)
\* The row about to be processed holds a value and matches no student
CreatingRow == AtRow /\ ~BlankRow(rows[i]) /\ Resolves(i) = {}

\* The store after the step is the store before it and one student more
OneStudentAdded ==
    /\ Len(store') = Len(store) + 1
    /\ SubSeq(store', 1, Len(store)) = store
    /\ report'.created = report.created + 1
    /\ report'.updated = report.updated

\* What a created student holds besides the nine row fields
CreatedDefaults(new, row) ==
    /\ new.telegram_id = 0
    /\ new.admission_year = default_admission_year
    /\ new.secret_comment = << >>
    /\ SeqToSet(new.name_pairs) = DerivedPairs(row.first_name, row.last_name)

C10_CreateOnZeroMatches ==
    [][CreatingRow =>
          /\ OneStudentAdded
          /\ \A k \in RowFields : store'[Len(store')][k] = rows[i][k]
          /\ CreatedDefaults(store'[Len(store')], rows[i])]_vars

\* Amended: matric_number is the value of the row when the row has one and
\* null when it has none; the eight other row fields equal the row's values
C10_CreateOnZeroMatchesNullMatric ==
    [][CreatingRow =>
          /\ OneStudentAdded
          /\ \A k \in RowFields \ {"matric_number"} :
                store'[Len(store')][k] = rows[i][k]
          /\ store'[Len(store')].matric_number =
                IF rows[i].matric_number # << >> THEN rows[i].matric_number ELSE None
          /\ CreatedDefaults(store'[Len(store')], rows[i])]_vars

\* A student has been created beside a stored one from a row with two name
\* tokens and no matriculation number
C10_Witness ==
    /\ pc = "loop"
    /\ Len(students) > 0
    /\ Len(store) > Len(students)
    /\ report.created > 0
    /\ \E j \in 1..(i - 1) :
          /\ Resolves(j) = {}
          /\ rows[j].matric_number = << >>
          /\ Cardinality(RowTokens(j)) = 2
          /\ \E d \in (Len(students) + 1)..Len(store) :
                /\ store[d].first_name = rows[j].first_name
                /\ store[d].personal_email = rows[j].personal_email
                /\ store[d].matric_number = None
                /\ store[d].name_pairs # << >>

(***************************************************************************)
(* The vocabulary of the claims about search.                              *)
(***************************************************************************)
\* The tokens of the query of the last search
QueryTokens == tokenize_names(<<normalize(search.query)>>)

\* The identifiers the last search returned
ResultSet == SeqToSet(search.result)

\* A search has returned and none of its reads of the store failed
SearchedUnfailed ==
    search.called /\ search.failed_pairs = {} /\ ~search.scan_fails /\ ~search.raised

\* The tokens of the names of stored student d
StoredTokens(d) == NameTokens(store[d].first_name, store[d].last_name)

\* Stored student d holds one of the ordered pairs of the query tokens in name_pairs
HoldsQueryPair(d) ==
    \E a, b \in SeqToSet(QueryTokens) :
        a # b /\ InSeq(PairString(a, b), store[d].name_pairs)

(***************************************************************************)
(* C11.  Pair symmetry: for a stored student whose name_pairs is           *)
(* consistent with its names, a query of two distinct tokens of its name   *)
(* returns the student, and the query with the two tokens in the reverse   *)
(* order returns the same set of students.                                 *)
(***************************************************************************)
C11_PairSymmetry ==
    (SearchedUnfailed /\ Len(QueryTokens) = 2) =>
        \A d \in 1..Len(store) :
            (IndexConsistent(store[d]) /\ SeqToSet(QueryTokens) \subseteq StoredTokens(d)) =>
                /\ d \in ResultSet
                /\ ResultSet =
                      SeqToSet(search_students(PairString(QueryTokens[2], QueryTokens[1]),
                                               store, {}, 0, FALSE).result)

\* john has been found by his two names beside a student that shares his first name
C11_Witness ==
    /\ SearchedUnfailed
    /\ Len(QueryTokens) = 2
    /\ \E d, o \in 1..Len(store) :
          /\ IndexConsistent(store[d])
          /\ SeqToSet(QueryTokens) \subseteq StoredTokens(d)
          /\ d \in ResultSet
          /\ QueryTokens[1] \in StoredTokens(o)
          /\ o \notin ResultSet

(***************************************************************************)
(* C12.  Fallback scan: when the query has one token, or has two or more   *)
(* and no stored name_pairs holds an ordered pair of them, the result is   *)
(* exactly the students whose first-name tokens or last-name tokens hold   *)
(* the first query token; the later tokens play no part.                   *)
(***************************************************************************)
C12_FallbackScan ==
    (/\ search.called
     /\ ~search.scan_fails
     /\ QueryTokens # << >>
     /\ \A d \in 1..Len(store) : ~HoldsQueryPair(d))
    => /\ ~search.raised
       /\ ResultSet =
             {d \in 1..Len(store) :
                 \/ QueryTokens[1] \in NameTokens(store[d].first_name, << >>)
                 \/ QueryTokens[1] \in NameTokens(<< >>, store[d].last_name)}

\* A one-token query has found a student by the last name; in another store a
\* two-token query whose second token nobody has would find one by the first name
C12_Witness ==
    /\ search.called
    /\ ~search.scan_fails
    /\ Len(QueryTokens) = 1
    /\ \E d, o \in 1..Len(store) :
          /\ d \in ResultSet
          /\ QueryTokens[1] \in NameTokens(<< >>, store[d].last_name)
          /\ QueryTokens[1] \notin NameTokens(store[d].first_name, << >>)
          /\ o \notin ResultSet

(***************************************************************************)
(* C13.  No fall-through: for a query of two or more tokens, when some     *)
(* stored name_pairs holds one of their ordered pairs, the result is       *)
(* exactly the students whose name_pairs holds one of the pairs, each      *)
(* once; a student that has only the first token is not added.             *)
(***************************************************************************)
C13_NoFallThrough ==
    (/\ SearchedUnfailed
     /\ Len(QueryTokens) >= 2
     /\ \E d \in 1..Len(store) : HoldsQueryPair(d))
    => /\ ResultSet = {d \in 1..Len(store) : HoldsQueryPair(d)}
       /\ Len(search.result) = Cardinality(ResultSet)

\* Two students hold the pair and a third has only the first token
C13_Witness ==
    /\ SearchedUnfailed
    /\ Len(QueryTokens) >= 2
    /\ Cardinality(ResultSet) >= 2
    /\ \A d \in ResultSet : HoldsQueryPair(d)
    /\ \E o \in 1..Len(store) :
          /\ o \notin ResultSet
          /\ QueryTokens[1] \in StoredTokens(o)

(***************************************************************************)
(* C14.  A name that is not in the directory: a query none of whose tokens *)
(* is a token of the current names of a stored student returns nothing,    *)
(* and so does a query without a token.                                    *)
(* An update that changes a name leaves the old name_pairs in the          *)
(* document (C1), and the pair lookup still finds the student by them.     *)
(***************************************************************************)
C14_UnknownNameFindsNothing ==
    (/\ search.called
     /\ ~search.raised
     /\ \A d \in 1..Len(store) : SeqToSet(QueryTokens) \cap StoredTokens(d) = {})
    => search.result = << >>

(***************************************************************************)
(* C18.  Search degradation: in a search of two or more tokens a pair      *)
(* whose lookup fails contributes no result, the search goes on with the   *)
(* other pairs, and with the scan when they find nobody, and does not      *)
(* raise; when the read of the whole collection fails in the scan, the     *)
(* failure reaches the caller.                                             *)
(* fetch_by_pair returns what the stream delivered before it failed, so a  *)
(* failing lookup can contribute results.                                  *)
(***************************************************************************)
\* The students found by the pairs of the query whose lookup did not fail
FoundByGoodPairs ==
    {d \in 1..Len(store) :
        \E pair \in QueryPairs(search.query) \ search.failed_pairs :
            InSeq(pair, store[d].name_pairs)}

\* The students the scan finds for the first token of the query
ScanSet ==
    {d \in 1..Len(store) : QueryTokens[1] \in StoredTokens(d)}

C18_LookupFailureDegrades ==
    (search.called /\ Len(QueryTokens) >= 2) =>
        IF FoundByGoodPairs # {}
        THEN ~search.raised /\ ResultSet = FoundByGoodPairs
        ELSE IF search.scan_fails
        THEN search.raised
        ELSE ~search.raised /\ ResultSet = ScanSet

\* Amended: a pair whose lookup fails contributes the students the lookup
\* delivered before it failed, none when it failed before the first
DeliveredBy(pair) ==
    {d \in 1..Len(store) :
        /\ InSeq(pair, store[d].name_pairs)
        /\ \/ pair \notin search.failed_pairs
           \/ Cardinality({e \in 1..(d - 1) : InSeq(pair, store[e].name_pairs)})
                 < search.delivered}

FoundByDelivery == UNION {DeliveredBy(pair) : pair \in QueryPairs(search.query)}

C18_LookupFailureKeepsDelivered ==
    (search.called /\ Len(QueryTokens) >= 2) =>
        IF FoundByDelivery # {}
        THEN ~search.raised /\ ResultSet = FoundByDelivery
        ELSE IF search.scan_fails
        THEN search.raised
        ELSE ~search.raised /\ ResultSet = ScanSet

\* Every lookup failed after its first result: the search returned that student
\* and not the other student that holds the pair
C18_Witness ==
    /\ search.called
    /\ search.failed_pairs = QueryPairs(search.query)
    /\ search.failed_pairs # {}
    /\ search.delivered > 0
    /\ search.scan_fails
    /\ ~search.raised
    /\ ResultSet # {}
    /\ \E d \in 1..Len(store) : d \notin ResultSet /\ HoldsQueryPair(d)

(***************************************************************************)
(* C19.  generate_ordered_pairs of n distinct tokens returns the n*(n-1)   *)
(* strings "a b" of the ordered pairs of distinct tokens, both orders, no  *)
(* token with itself, in permutation order; nothing for n < 2.             *)
(***************************************************************************)
\* The k-th pair of positions of the permutations of 1..n taken two at a time
PermutationAt(n, k) ==
    LET p == ((k - 1) \div (n - 1)) + 1
        r == ((k - 1) % (n - 1)) + 1
    IN  <<p, IF r < p THEN r ELSE r + 1>>

C19_OrderedPairs ==
    pairing.called =>
        LET n == Len(pairing.tokens)
        IN  /\ Len(pairing.pairs) = n * (n - 1)
            /\ \A k \in 1..Len(pairing.pairs) :
                  pairing.pairs[k] =
                      pairing.tokens[PermutationAt(n, k)[1]] \o <<" ">> \o
                      pairing.tokens[PermutationAt(n, k)[2]]
            /\ n < 2 => pairing.pairs = << >>

\* The pairs of three tokens have been generated: six of them, no two the same
C19_Witness ==
    /\ pairing.called
    /\ Len(pairing.tokens) = 3
    /\ Cardinality(SeqToSet(pairing.pairs)) = 6

(***************************************************************************)
(* C15.  Row indexing and blank rows: the index reported for a row in      *)
(* ambiguous_rows and in the duplicate groups is its position among the    *)
(* data rows plus one; a row whose nine fields are empty creates nothing,  *)
(* updates nothing, adds no ambiguous entry and joins no group, and the    *)
(* rows after it keep their indexes.                                       *)
(***************************************************************************)
\* The entries the step adds to ambiguous_rows carry the position of the row
\* the loop is at, plus one, blank rows counted
NewEntriesIndexed ==
    \A a \in (Len(report.ambiguous_rows) + 1)..Len(report'.ambiguous_rows) :
        report'.ambiguous_rows[a][1] = i + 1

\* Every index of the groups the call returns is the position, plus one, of a
\* row whose single match is the student of the group
GroupsIndexed ==
    \A g \in 1..Len(report'.duplicate_groups) :
        \A r \in 1..Len(report'.duplicate_groups[g].row_indexes) :
            \E j \in 1..Len(rows) :
                /\ report'.duplicate_groups[g].row_indexes[r] = j + 1
                /\ Resolves(j) = {report'.duplicate_groups[g].student_id}

C15_RowIndexingAndBlankRows ==
    [][/\ (AtRow /\ BlankRow(rows[i])) =>
              /\ store' = store
              /\ report' = report
              /\ matched_row_groups' = matched_row_groups
       /\ AtRow => NewEntriesIndexed
       /\ (pc = "loop" /\ i > Len(rows)) => GroupsIndexed]_vars

\* A file whose first row holds spaces and a placeholder and whose second row is
\* ambiguous: the report gives the second row the index 3
C15_Witness ==
    /\ Returned
    /\ Len(rows) = 2
    /\ BlankRow(rows[1])
    /\ \E k \in DOMAIN batch[1] : batch[1][k] # << >>
    /\ Len(report.ambiguous_rows) = 1
    /\ report.ambiguous_rows[1][1] = 3
    /\ report.created = 0
    /\ store = [d \in 1..Len(students) |-> model_dump(students[d])]

(***************************************************************************)
(* C17.  Row independence under failure: an anomaly in one row, a failed   *)
(* write of a create or an update among them, does not abort the batch;    *)
(* the rows after it are processed and the call returns a report with the  *)
(* outcome of every row.                                                   *)
(* Nothing catches the exception of add() or set(): it ends the call.      *)
(***************************************************************************)
C17_RowsIndependentUnderFailure ==
    [][AtRow => (pc' = "loop" /\ i' = i + 1)]_vars

(***************************************************************************)
(* C20.  An import never deletes: every identifier the store held when the *)
(* call began is in the store afterwards, and the store holds as many      *)
(* students as before plus report.created.                                 *)
(***************************************************************************)
C20_NeverDeletes ==
    files > 0 =>
        /\ \A d \in 1..Len(students) : d \in DOMAIN store
        /\ Len(store) = Len(students) + report.created

\* A call that created one student and updated another has returned
C20_Witness ==
    /\ Returned
    /\ Len(students) > 0
    /\ report.created > 0
    /\ report.updated > 0
    /\ Len(store) > Len(students)

(***************************************************************************)
(* C21.  Fill across a batch: when several rows of a batch resolve to the  *)
(* same stored student, a value an earlier row wrote into a field is still *)
(* the stored value at the end of the batch unless a later row supplies a  *)
(* non-empty value for the field; a later row that is blank in the field   *)
(* never reverts it.                                                       *)
(* The code merges every row into the snapshot taken before the loop and   *)
(* replaces the whole document, so a later row that changes another field  *)
(* writes the snapshot's value back over the value of the earlier row.     *)
(***************************************************************************)
\* The rows before the loop position that resolve to student d alone and
\* supply a value for field k
SuppliedBefore(d, k) ==
    {j \in 1..(i - 1) : Resolves(j) = {d} /\ rows[j][k] # << >>}

\* The last member of a set of positions
Latest(S) == CHOOSE x \in S : \A y \in S : y <= x

C21_FillAcrossBatch ==
    pc = "loop" =>
        \A d \in 1..Len(students) : \A k \in RowFields :
            SuppliedBefore(d, k) # {} =>
                store[d][k] = rows[Latest(SuppliedBefore(d, k))][k]

(***************************************************************************)
(* C22.  Fixed snapshot: within one call the collection is read once,      *)
(* before the first row, and the match set of every row is computed from   *)
(* that snapshot only.  A student created by an earlier row of the batch   *)
(* is never matched by a later row: every non-empty row that matches no    *)
(* student of the snapshot creates a student, also when an earlier row     *)
(* with the same email, handle or name has created one.                    *)
(***************************************************************************)
\* The rows before the loop position that hold a value and resolve to no
\* student of the snapshot
UnmatchedBefore == {j \in 1..(i - 1) : ~BlankRow(rows[j]) /\ Resolves(j) = {}}

C22_FixedSnapshot ==
    pc = "loop" =>
        /\ by_email = EmailIndex(students)
        /\ by_tg = HandleIndex(students)
        /\ \A j \in 1..Len(rows) : MatchSet(j) \subseteq 1..Len(students)
        /\ Len(store) = Len(students) + Cardinality(UnmatchedBefore)
        /\ report.created = Cardinality(UnmatchedBefore)

\* Two rows with the same email, handle and names have each created a student
C22_Witness ==
    /\ pc = "loop"
    /\ i = 3
    /\ rows[1] = rows[2]
    /\ rows[1].personal_email # << >>
    /\ rows[1].telegram_name # << >>
    /\ RowTokens(1) # {}
    /\ Len(store) = Len(students) + 2
    /\ store[Len(store)] = store[Len(store) - 1]
    /\ Len(students) > 0

(***************************************************************************)
(* C24.  Update-if-changed: for a row with exactly one match, when the     *)
(* merged record equals the record before the merge in every field, no     *)
(* write is made and updated stays; when a field differs, one write        *)
(* replaces the whole stored document with the merged record and updated   *)
(* grows by one.                                                           *)
(***************************************************************************)
\* The record before the merge: the student as the snapshot holds it
PreMerge(d) == [k \in StudentFields |-> students[d][k]]

\* The merged record: the row's value where the row has one, the value before
\* elsewhere; name_pairs as before, derived from the names when it was empty
Merged(d, row) ==
    LET filled == [k \in StudentFields |->
                      IF k \in RowFields /\ row[k] # << >> THEN row[k]
                      ELSE students[d][k]]
    IN  IF filled.name_pairs # << >> THEN filled
        ELSE [filled EXCEPT !.name_pairs =
                generate_ordered_pairs(tokenize_names(<<filled.first_name,
                                                        filled.last_name>>))]

C24_UpdateIfChanged ==
    [][\A d \in 1..Len(students) :
          (AtRow /\ MatchSet(i) = {d}) =>
              IF Merged(d, rows[i]) = PreMerge(d)
              THEN store' = store /\ report'.updated = report.updated
              ELSE /\ store' = [store EXCEPT ![d] = Merged(d, rows[i])]
                   /\ report'.updated = report.updated + 1]_vars

\* Of two rows with the same single match, one has left the record as it was
\* and made no write, the other has changed it and has been counted
C24_Witness ==
    /\ pc = "loop"
    /\ i = 3
    /\ report.updated = 1
    /\ \E d \in 1..Len(students) : \E j, k \in 1..2 :
          /\ MatchSet(j) = {d}
          /\ MatchSet(k) = {d}
          /\ Merged(d, rows[j]) = PreMerge(d)
          /\ Merged(d, rows[k]) # PreMerge(d)
          /\ store[d] = Merged(d, rows[k])

(***************************************************************************)
(* C26.  Outcome partition of a report: every non-empty row has exactly    *)
(* one outcome, so created plus the number of ambiguous rows plus the      *)
(* number of rows matched to exactly one student is the number of          *)
(* non-empty rows; updated is at most the number of rows matched to        *)
(* exactly one student; no row index is twice in ambiguous_rows, in two    *)
(* duplicate groups, or in ambiguous_rows and in a duplicate group.        *)
(***************************************************************************)
\* The rows of the batch that hold a value, and those of them that resolve to
\* exactly one student
NonEmptyRows == {j \in 1..Len(rows) : ~BlankRow(rows[j])}

SingleMatchRows == {j \in 1..Len(rows) : Cardinality(Resolves(j)) = 1}

\* The row indexes of ambiguous_rows and of duplicate group g, as sequences
AmbiguousIndexes == [a \in 1..Len(report.ambiguous_rows) |-> report.ambiguous_rows[a][1]]

GroupIndexes(g) == report.duplicate_groups[g].row_indexes

\* No element twice
NoRepeat(seq) == Cardinality(SeqToSet(seq)) = Len(seq)

C26_OutcomePartition ==
    Returned =>
        /\ report.created + Len(report.ambiguous_rows) + Cardinality(SingleMatchRows)
              = Cardinality(NonEmptyRows)
        /\ report.updated <= Cardinality(SingleMatchRows)
        /\ NoRepeat(AmbiguousIndexes)
        /\ \A g \in 1..Len(report.duplicate_groups) :
              /\ NoRepeat(GroupIndexes(g))
              /\ SeqToSet(GroupIndexes(g)) \cap SeqToSet(AmbiguousIndexes) = {}
              /\ \A h \in 1..Len(report.duplicate_groups) :
                    g # h => SeqToSet(GroupIndexes(g)) \cap SeqToSet(GroupIndexes(h)) = {}
              \* the groups are taken from the rows tracked per student, where
              \* no row is tracked for two students or tracked and ambiguous
              /\ \E m \in 1..Len(matched_row_groups) :
                    matched_row_groups[m] = report.duplicate_groups[g]
        /\ \A m \in 1..Len(matched_row_groups) :
              /\ SeqToSet(matched_row_groups[m].row_indexes)
                    \cap SeqToSet(AmbiguousIndexes) = {}
              /\ \A n \in 1..Len(matched_row_groups) :
                    m # n => SeqToSet(matched_row_groups[m].row_indexes)
                               \cap SeqToSet(matched_row_groups[n].row_indexes) = {}

\* A call on a file with an ambiguous row and a row that matched nobody has
\* returned, the stored students untouched
C26_Witness ==
    /\ Returned
    /\ Len(rows) = 2
    /\ report.created = 1
    /\ Len(report.ambiguous_rows) = 1
    /\ report.updated = 0
    /\ report.duplicate_groups = << >>

(***************************************************************************)
(* C25.  Student construction: name_pairs supplied explicitly is kept as   *)
(* supplied and not recomputed, also when it disagrees with the names;     *)
(* when it is not supplied it is generate_ordered_pairs of the tokens of   *)
(* first_name and last_name.                                               *)
(* The validator tests `not self.name_pairs`: an empty list supplied       *)
(* explicitly is taken as not supplied and the pairs are derived, which is *)
(* what _create_student relies on.                                         *)
(***************************************************************************)
\* The data of the last construction supplied name_pairs
Supplied == "name_pairs" \in DOMAIN construction.data

\* The pairs of the names of the last construction
PairsOfNames ==
    generate_ordered_pairs(tokenize_names(<<construction.data.first_name,
                                            construction.data.last_name>>))

OtherResolves(k) ==
    IF BlankRow(other.rows[k]) THEN {} ELSE WinningTier(other.rows[k], other.students)

\* The emails a row carries
RowEmails(row) == {row.cub_email, row.personal_email} \ {<< >>}

\* The stored students one of whose emails is e
HoldersOf(e) ==
    {d \in 1..Len(store) :
        SameNoCase(e, store[d].cub_email) \/ SameNoCase(e, store[d].personal_email)}

C23_RacingBatches ==
    (pc = "loop" /\ other.started) =>
        \A j \in 1..(i - 1) : \A k \in 1..(other.i - 1) :
            \A e \in RowEmails(rows[j]) \cap RowEmails(other.rows[k]) :
                (Resolves(j) = {} /\ OtherResolves(k) = {}) =>
                    Cardinality(HoldersOf(e)) >= 2

\* The second call has returned and the first has processed its rows: each has
\* created one student from a row with the same email, which no student of the
\* store held when the calls began, and two stored students hold it now
C23_Witness ==
    /\ pc = "loop"
    /\ i > Len(rows)
    /\ other.started
    /\ other.pc = "idle"
    /\ other.students = students
    /\ Len(students) > 0
    /\ report.created = 1
    /\ other.report.created = 1
    /\ Len(store) = Len(students) + 2
    /\ \E e \in RowEmails(rows[1]) \cap RowEmails(other.rows[1]) :
          /\ HoldersOf(e) = {Len(store) - 1, Len(store)}
          /\ \A d \in 1..Len(students) :
                e \notin {Lower(students[d].cub_email), Lower(students[d].personal_email)}

====
